---- MODULE Spec2Model ----
(***************************************************************************)
(* The cache-aside users service (services.UsersService) in front of the   *)
(* users table and the redis cache client (services.Client).               *)
(*                                                                         *)
(* Every call the service makes on the durable store or on the cache is    *)
(* one step of the calling request; requests run one per goroutine.        *)
(***************************************************************************)
EXTENDS Integers, Sequences, FiniteSets, TLC

\* Bounds of the model.
MaxId == 2
NumProcs == 2
WordBits == 6
MaxConns == 2

VARIABLES
    db,          \* the users table: a set of rows, at most one per ID
    nextId,      \* the table's id sequence
    cache,       \* the redis keyspace: a set of entries, at most one per key
    expiration,  \* Client.expiration, fixed at construction
    call,        \* per request goroutine: the service call it is running
    pre,         \* history: table and keyspace when the running call began
    last,        \* history: the call that returned last, without error
    held,        \* history: every row the table has held
    stale,       \* history: the entry a failed cache delete left behind
    orphan,      \* history: the id of the row a failed CreateUser left behind
    req,         \* the http request HandleReadUser is serving
    srv          \* main.run: its goroutines, its server and its channels

vars ==
    <<db, nextId, cache, expiration, call, pre, last, held, stale, orphan,
      req, srv>>

\* What lies around the service: the handler and the server.
outer == <<req, srv>>

\* What the steps of the service never mention: the history that only some
\* specifications record, and what lies around the service.
hist == <<held, stale, orphan, outer>>

Procs == 1..NumProcs
Ids == 1..MaxId

----------------------------------------------------------------------------
\* models.User and the values requests carry.

ZeroUser == [ID |-> 0, Name |-> "", Email |-> "", Password |-> ""]

InputUsers ==
    { [ID |-> 0, Name |-> "Ann", Email |-> "a@x.com", Password |-> "p"],
      [ID |-> 9, Name |-> "Bob", Email |-> "b@x.com", Password |-> "q"] }

\* The configured expiration, in ticks of the redis server's clock.
Durations == {2}

----------------------------------------------------------------------------
\* Errors are chains of messages, outermost first; nil is the empty chain.

Nil == <<>>
RedisNil == <<"redis: nil">>
ErrRedis == <<"redis: connection refused">>
ErrSQL == <<"sql: connection refused">>
ErrNoRows == <<"sql: no rows in result set">>
ErrJSON == <<"json: invalid character">>

Errorf(msg, err) == <<msg>> \o err

----------------------------------------------------------------------------
\* strconv: decimal renderings, as sequences of characters.

DigitChars == <<"0", "1", "2", "3", "4", "5", "6", "7", "8", "9">>

RECURSIVE FormatUint(_)
FormatUint(n) ==
    IF n < 10 THEN <<DigitChars[n + 1]>>
    ELSE FormatUint(n \div 10) \o <<DigitChars[(n % 10) + 1]>>

Itoa(i) == IF i < 0 THEN <<"-">> \o FormatUint(0 - i) ELSE FormatUint(i)

\* int(n) of an n of type uint: the word read as a signed integer, here of
\* WordBits bits.
MaxUint == 2^WordBits - 1
ToInt(n) == IF n >= 2^(WordBits - 1) THEN n - 2^WordBits ELSE n

DigitVal(ch) == (CHOOSE d \in 1..10 : DigitChars[d] = ch) - 1

RECURSIVE ParseUint(_)
ParseUint(s) ==
    IF Len(s) = 1 THEN DigitVal(s[1])
    ELSE 10 * ParseUint(SubSeq(s, 1, Len(s) - 1)) + DigitVal(s[Len(s)])

----------------------------------------------------------------------------
\* encoding/json on models.User: the encoded object is a token sequence.

\* Faulty variant: the password is left out of the encoding.
Marshal_OmitPassword(u) == <<"{", FormatUint(u.ID), u.Name, u.Email, "", "}">>

Marshal(u) == <<"{", FormatUint(u.ID), u.Name, u.Email, u.Password, "}">>

NotJSON == <<"not-json">>
EmptyString == <<>>

\* A value of a type encoding/json cannot encode, and the error it gives.
Chan == [chan |-> "int"]
ErrUnsupportedType == <<"json: unsupported type: chan int">>

\* json.Marshal(value): the encoding and the error.
JSONMarshal(value) ==
    IF DOMAIN value = DOMAIN ZeroUser
    THEN [data |-> Marshal(value), err |-> Nil]
    ELSE [data |-> EmptyString, err |-> ErrUnsupportedType]

\* json.Unmarshal(raw, v): the error, and v as it is left.
JSONUnmarshal(raw, v) ==
    IF Len(raw) >= 2 /\ raw[1] = "{" /\ raw[Len(raw)] = "}"
    THEN IF Len(raw) = 6
         THEN [err |-> Nil,
               v |-> [ID |-> ParseUint(raw[2]), Name |-> raw[3],
                      Email |-> raw[4], Password |-> raw[5]]]
         ELSE [err |-> Nil, v |-> v]
    ELSE [err |-> ErrJSON, v |-> v]

----------------------------------------------------------------------------
\* The redis keyspace.

CacheHas(c, key) == \E e \in c : e.key = key
CacheEntry(c, key) == CHOOSE e \in c : e.key = key
CacheDel(c, key) == {e \in c : e.key # key}
CachePut(c, key, val, ttl) ==
    CacheDel(c, key) \cup {[key |-> key, val |-> val, ttl |-> ttl]}

\* redis GET: the command's value and error.
RedisGet(c, key, o) ==
    IF o = "err" THEN [val |-> EmptyString, err |-> ErrRedis]
    ELSE IF CacheHas(c, key) THEN [val |-> CacheEntry(c, key).val, err |-> Nil]
    ELSE [val |-> EmptyString, err |-> RedisNil]

\* redis SET with an expiration, 0 for none: the keyspace after it, and the
\* command's error.
RedisSet(c, key, val, ttl, o) ==
    IF o = "err" THEN [cache |-> c, err |-> ErrRedis]
    ELSE [cache |-> CachePut(c, key, val, ttl), err |-> Nil]

\* Faulty variant: the delete is reported done without being sent.
RedisDel_Skipped(c, key, o) ==
    IF o = "err" THEN [cache |-> c, err |-> ErrRedis]
    ELSE [cache |-> c, err |-> Nil]

\* redis DEL: the keyspace after it, and the command's error.
RedisDel(c, key, o) ==
    IF o = "err" THEN [cache |-> c, err |-> ErrRedis]
    ELSE [cache |-> CacheDel(c, key), err |-> Nil]

\* Faulty variant: the error of the redis SET is dropped.
SetMarshal_SwallowErr(c, key, value, o) ==
    LET m == JSONMarshal(value)
        s == RedisSet(c, key, m.data, expiration, o)
    IN  IF m.err # Nil
        THEN [cache |-> c, sent |-> FALSE,
              err |-> Errorf("[in services.Client.Set] failed to marshal value", m.err)]
        ELSE [cache |-> s.cache, sent |-> TRUE, err |-> Nil]

\* Faulty variant: the error of json.Marshal is dropped and the write goes on.
SetMarshal_IgnoreMarshalErr(c, key, value, o) ==
    LET m == JSONMarshal(value)
        s == RedisSet(c, key, m.data, expiration, o)
    IN  [cache |-> s.cache, sent |-> TRUE, err |-> s.err]

\* Client.SetMarshal: the keyspace after it, and its error.
\* `sent` tells whether the redis SET was issued.
SetMarshal(c, key, value, o) ==
    LET m == JSONMarshal(value)
        s == RedisSet(c, key, m.data, expiration, o)
    IN  IF m.err # Nil
        THEN [cache |-> c, sent |-> FALSE,
              err |-> Errorf("[in services.Client.Set] failed to marshal value", m.err)]
        ELSE [cache |-> s.cache, sent |-> TRUE, err |-> s.err]

\* Faulty variant: a decoded value is still reported as not found.
Unmarshal_NeverFound(cmd, v) ==
    IF cmd.err # Nil
    THEN IF cmd.err = RedisNil
         THEN [found |-> FALSE, err |-> Nil, v |-> v]
         ELSE [found |-> FALSE, err |-> cmd.err, v |-> v]
    ELSE IF cmd.val = EmptyString
    THEN [found |-> FALSE, err |-> Nil, v |-> v]
    ELSE LET d == JSONUnmarshal(cmd.val, v)
         IN  IF d.err # Nil
             THEN [found |-> FALSE,
                   err |-> Errorf("[in services.StringCmd.Unmarshal] failed to unmarshal from cache", d.err),
                   v |-> d.v]
             ELSE [found |-> FALSE, err |-> Nil, v |-> d.v]

\* Faulty variant: redis.Nil is not told apart from the other errors.
Unmarshal_NilIsError(cmd, v) ==
    IF cmd.err # Nil
    THEN [found |-> FALSE, err |-> cmd.err, v |-> v]
    ELSE IF cmd.val = EmptyString
    THEN [found |-> FALSE, err |-> Nil, v |-> v]
    ELSE LET d == JSONUnmarshal(cmd.val, v)
         IN  IF d.err # Nil
             THEN [found |-> FALSE,
                   err |-> Errorf("[in services.StringCmd.Unmarshal] failed to unmarshal from cache", d.err),
                   v |-> d.v]
             ELSE [found |-> TRUE, err |-> Nil, v |-> d.v]

\* Faulty variant: a value that does not decode is reported as a miss.
Unmarshal_DecodeAsMiss(cmd, v) ==
    IF cmd.err # Nil
    THEN IF cmd.err = RedisNil
         THEN [found |-> FALSE, err |-> Nil, v |-> v]
         ELSE [found |-> FALSE, err |-> cmd.err, v |-> v]
    ELSE IF cmd.val = EmptyString
    THEN [found |-> FALSE, err |-> Nil, v |-> v]
    ELSE LET d == JSONUnmarshal(cmd.val, v)
         IN  IF d.err # Nil
             THEN [found |-> FALSE, err |-> Nil, v |-> v]
             ELSE [found |-> TRUE, err |-> Nil, v |-> d.v]

\* Faulty variant: every error of the GET is reported as a miss.
Unmarshal_SwallowTransport(cmd, v) ==
    IF cmd.err # Nil
    THEN [found |-> FALSE, err |-> Nil, v |-> v]
    ELSE IF cmd.val = EmptyString
    THEN [found |-> FALSE, err |-> Nil, v |-> v]
    ELSE LET d == JSONUnmarshal(cmd.val, v)
         IN  IF d.err # Nil
             THEN [found |-> FALSE,
                   err |-> Errorf("[in services.StringCmd.Unmarshal] failed to unmarshal from cache", d.err),
                   v |-> d.v]
             ELSE [found |-> TRUE, err |-> Nil, v |-> d.v]

\* StringCmd.Unmarshal on a finished GET.
Unmarshal(cmd, v) ==
    IF cmd.err # Nil
    THEN IF cmd.err = RedisNil
         THEN [found |-> FALSE, err |-> Nil, v |-> v]
         ELSE [found |-> FALSE, err |-> cmd.err, v |-> v]
    ELSE IF cmd.val = EmptyString
    THEN [found |-> FALSE, err |-> Nil, v |-> v]
    ELSE LET d == JSONUnmarshal(cmd.val, v)
         IN  IF d.err # Nil
             THEN [found |-> FALSE,
                   err |-> Errorf("[in services.StringCmd.Unmarshal] failed to unmarshal from cache", d.err),
                   v |-> d.v]
             ELSE [found |-> TRUE, err |-> Nil, v |-> d.v]

\* Faulty variant: an empty stored value is reported as found.
Result_EmptyIsFound(cmd) ==
    IF cmd.err # Nil
    THEN IF cmd.err = RedisNil
         THEN [val |-> EmptyString, found |-> FALSE, err |-> Nil]
         ELSE [val |-> EmptyString, found |-> FALSE, err |-> cmd.err]
    ELSE [val |-> cmd.val, found |-> TRUE, err |-> Nil]

\* StringCmd.Result on a finished GET.
Result(cmd) ==
    IF cmd.err # Nil
    THEN IF cmd.err = RedisNil
         THEN [val |-> EmptyString, found |-> FALSE, err |-> Nil]
         ELSE [val |-> EmptyString, found |-> FALSE, err |-> cmd.err]
    ELSE IF cmd.val = EmptyString
    THEN [val |-> EmptyString, found |-> FALSE, err |-> Nil]
    ELSE [val |-> cmd.val, found |-> TRUE, err |-> Nil]

----------------------------------------------------------------------------
\* The users table.

HasRow(t, id) == \E r \in t : r.ID = id
Row(t, id) == CHOOSE r \in t : r.ID = id

SQLInsert(t, id, u) ==
    t \cup {[ID |-> id, Name |-> u.Name, Email |-> u.Email, Password |-> u.Password]}

\* Faulty variant: the UPDATE also sets the id column from the patch.
SQLUpdate_TakesPatchID(t, id, patch) ==
    {IF r.ID = id
     THEN [ID |-> patch.ID, Name |-> patch.Name, Email |-> patch.Email,
           Password |-> patch.Password]
     ELSE r : r \in t}

\* UPDATE users SET name = $1, email = $2, password = $3 WHERE id = $4
SQLUpdate(t, id, patch) ==
    {IF r.ID = id
     THEN [ID |-> r.ID, Name |-> patch.Name, Email |-> patch.Email,
           Password |-> patch.Password]
     ELSE r : r \in t}

SQLDelete(t, id) == {r \in t : r.ID # id}

\* Faulty variant: a SELECT that matches no row is reported as a failure of
\* the store.
QueryRowScan_NoRowsIsFailure(t, id, o, v) ==
    IF o = "err" THEN [err |-> ErrSQL, v |-> v]
    ELSE IF HasRow(t, id) THEN [err |-> Nil, v |-> Row(t, id)]
    ELSE [err |-> ErrSQL, v |-> v]

\* db.QueryRowContext(SELECT ... WHERE id = $1).Scan(&v...): the error, and v.
QueryRowScan(t, id, o, v) ==
    IF o = "err" THEN [err |-> ErrSQL, v |-> v]
    ELSE IF HasRow(t, id) THEN [err |-> Nil, v |-> Row(t, id)]
    ELSE [err |-> ErrNoRows, v |-> v]

\* db.QueryRowContext(INSERT ... RETURNING id).Scan(&user.ID)
InsertReturning(t, seqId, u, o) ==
    IF o = "err" THEN [db |-> t, nextId |-> seqId, err |-> ErrSQL, id |-> u.ID]
    ELSE [db |-> SQLInsert(t, seqId, u), nextId |-> seqId + 1, err |-> Nil, id |-> seqId]

\* Faulty variant: the error of the UPDATE is dropped.
ExecUpdate_SwallowErr(t, id, patch, o) ==
    IF o = "err" THEN [db |-> t, err |-> Nil]
    ELSE [db |-> SQLUpdate(t, id, patch), err |-> Nil]

\* db.ExecContext(UPDATE ... WHERE id = $4)
ExecUpdate(t, id, patch, o) ==
    IF o = "err" THEN [db |-> t, err |-> ErrSQL]
    ELSE [db |-> SQLUpdate(t, id, patch), err |-> Nil]

\* Faulty variant: only the rows that have a cache entry are listed.
QueryContext_CachedOnly(t, o) ==
    IF o = "err" THEN [rows |-> {}, err |-> ErrSQL]
    ELSE [rows |-> {r \in t : CacheHas(cache, FormatUint(r.ID))}, err |-> Nil]

\* db.QueryContext(SELECT ... FROM users): the rows of the result, and the
\* error.
QueryContext(t, o) ==
    IF o = "err" THEN [rows |-> {}, err |-> ErrSQL]
    ELSE [rows |-> t, err |-> Nil]

\* Faulty variant: a DELETE that matches no row is reported as an error.
ExecDelete_NoRowIsError(t, id, o) ==
    IF o = "err" THEN [db |-> t, err |-> ErrSQL]
    ELSE IF ~HasRow(t, id) THEN [db |-> t, err |-> ErrNoRows]
    ELSE [db |-> SQLDelete(t, id), err |-> Nil]

\* db.ExecContext(DELETE ... WHERE id = $1)
ExecDelete(t, id, o) ==
    IF o = "err" THEN [db |-> t, err |-> ErrSQL]
    ELSE [db |-> SQLDelete(t, id), err |-> Nil]

----------------------------------------------------------------------------
\* A request goroutine's call.

IdleCall ==
    [op |-> "none", pc |-> "idle", id |-> 0, arg |-> ZeroUser,
     user |-> ZeroUser, found |-> FALSE,
     rdone |-> FALSE, rret |-> ZeroUser, rerr |-> Nil,
     ret |-> ZeroUser, err |-> Nil,
     nGet |-> 0, nQuery |-> 0, nSet |-> 0, nExec |-> 0, nDel |-> 0,
     fault |-> "none",
     cursor |-> "none", rows |-> {}, users |-> <<>>]

NewCall(op, pc, id, arg) ==
    [IdleCall EXCEPT !.op = op, !.pc = pc, !.id = id, !.arg = arg]

\* What is remembered of a call that returned without error: the call, its
\* result, and whether its id had a row and a cache entry when it began.
Summary(c, valid, hadRow, hadEntry) ==
    [valid |-> valid, op |-> c.op, id |-> c.id, arg |-> c.arg, ret |-> c.ret,
     hadRow |-> hadRow, hadEntry |-> hadEntry]

NoLast == Summary(IdleCall, FALSE, FALSE, FALSE)

NoPre == [db |-> {}, cache |-> {}]

\* No cache delete has failed: id 0 is no row's id.
NoStale == [id |-> 0, left |-> 0]

\* No request is with the handler: nothing is parsed, no status is written.
IdleReq ==
    [pc |-> "idle", idStr |-> <<>>, parsed |-> 0, called |-> FALSE, id |-> 0,
     user |-> ZeroUser, err |-> Nil,
     status |-> 0, body |-> <<>>, nHeader |-> 0]

\* The process is not running main.run.
ServerOff ==
    [main |-> "off", sig |-> "off", err |-> Nil, sigint |-> FALSE,
     inShutdown |-> FALSE, lnerr |-> FALSE, conns |-> 0, deadline |-> FALSE,
     cancelled |-> FALSE, shutdown |-> "none", sderr |-> Nil, msg |-> Nil,
     ret |-> Nil]

Idle(p) == call[p].pc = "idle"
Quiescent == \A p \in Procs : Idle(p)

\* The outcomes of a call on a store: it is carried out, or it fails, by a
\* failure of the store or because the context of the request is cancelled or
\* past its deadline, and is not carried out.
Outcomes(faulty) == IF faulty THEN {"ok", "err"} ELSE {"ok"}

Init ==
    /\ db = {}
    /\ nextId = 1
    /\ cache = {}
    /\ expiration \in Durations
    /\ call = [p \in Procs |-> IdleCall]
    /\ pre = NoPre
    /\ last = NoLast
    /\ held = {}
    /\ stale = NoStale
    /\ orphan = 0
    /\ req = IdleReq
    /\ srv = ServerOff

\* The id a remembered call was on.
About(l) == IF l.op = "CreateUser" THEN l.ret.ID ELSE l.id

\* A request arrives: goroutine p starts a service call.  The call before it
\* stays remembered when it was on the same id.
Begin(p, c, seq) ==
    /\ Idle(p)
    /\ seq => Quiescent
    /\ call' = [call EXCEPT ![p] = c]
    /\ pre' = IF seq THEN [db |-> db, cache |-> cache] ELSE pre
    /\ last' = IF last.valid /\ About(last) = c.id THEN last ELSE NoLast
    /\ UNCHANGED <<db, nextId, cache, expiration>>

BeginCreateUser(p, seq) ==
    \E u \in InputUsers :
        /\ nextId <= MaxId
        /\ Begin(p, NewCall("CreateUser", "c_insert", 0, u), seq)

BeginReadUser(p, seq) ==
    \E id \in Ids : Begin(p, NewCall("ReadUser", "r_get", id, ZeroUser), seq)

BeginUpdateUser(p, seq) ==
    \E id \in Ids, u \in InputUsers :
        Begin(p, NewCall("UpdateUser", "u_exec", id, u), seq)

BeginDeleteUser(p, seq) ==
    \E id \in Ids : Begin(p, NewCall("DeleteUser", "d_exec", id, ZeroUser), seq)

\* The call returns to its caller.
Return(p, seq) ==
    /\ call[p].pc = "done"
    /\ call' = [call EXCEPT ![p] = IdleCall]
    /\ last' = IF seq /\ call[p].err = Nil
               THEN Summary(call[p], TRUE, HasRow(pre.db, call[p].id),
                            CacheHas(pre.cache, FormatUint(call[p].id)))
               ELSE NoLast
    /\ pre' = NoPre
    /\ UNCHANGED <<db, nextId, cache, expiration>>

\* The top-level call of c returns (user, err).
Done(c, user, err) == [c EXCEPT !.pc = "done", !.ret = user, !.err = err]

----------------------------------------------------------------------------
\* UsersService.ReadUser, called by a request or by UpdateUser.

\* ReadUser returns (user, err) to whoever called it.
ReadReturn(c, user, err) ==
    LET r == [c EXCEPT !.rdone = TRUE, !.rret = user, !.rerr = err]
    IN  IF c.op = "ReadUser" THEN Done(r, user, err)
        ELSE IF err # Nil
        THEN Done(r, ZeroUser,
                  Errorf("[in services.UsersService.UpdateUser] failed to read updated user", err))
        ELSE [r EXCEPT !.pc = "u_set"]

\* Faulty variant: the cache is read with GETEX, which sets the expiration of
\* the entry it finds anew.
ReadUser_Get_Renews(p, o) ==
    /\ call[p].pc = "r_get"
    /\ LET c == [call[p] EXCEPT !.nGet = @ + 1]
           key == FormatUint(c.id)
           cmd == RedisGet(cache, key, o)
           res == Unmarshal(cmd, ZeroUser)
           f == IF o = "err" THEN "get"
                ELSE IF cmd.val # EmptyString /\ JSONUnmarshal(cmd.val, ZeroUser).err # Nil
                THEN "decode"
                ELSE c.fault
           c1 == [c EXCEPT !.user = res.v, !.found = res.found, !.fault = f]
       IN  /\ call' = [call EXCEPT ![p] =
                  IF res.err # Nil
                  THEN ReadReturn(c1, ZeroUser,
                           Errorf("[in services.UsersService.ReadUser] failed to read user from cache", res.err))
                  ELSE IF res.found THEN ReadReturn(c1, c1.user, Nil)
                  ELSE [c1 EXCEPT !.pc = "r_query"]]
           /\ cache' = IF o # "err" /\ CacheHas(cache, key)
                       THEN CachePut(cache, key, CacheEntry(cache, key).val, expiration)
                       ELSE cache
    /\ UNCHANGED <<db, nextId, expiration, pre, last>>

ReadUser_Get(p, o) ==
    /\ call[p].pc = "r_get"
    /\ LET c == [call[p] EXCEPT !.nGet = @ + 1]
           key == FormatUint(c.id)
           cmd == RedisGet(cache, key, o)
           res == Unmarshal(cmd, ZeroUser)
           f == IF o = "err" THEN "get"
                ELSE IF cmd.val # EmptyString /\ JSONUnmarshal(cmd.val, ZeroUser).err # Nil
                THEN "decode"
                ELSE c.fault
           c1 == [c EXCEPT !.user = res.v, !.found = res.found, !.fault = f]
       IN  call' = [call EXCEPT ![p] =
               IF res.err # Nil
               THEN ReadReturn(c1, ZeroUser,
                        Errorf("[in services.UsersService.ReadUser] failed to read user from cache", res.err))
               ELSE IF res.found THEN ReadReturn(c1, c1.user, Nil)
               ELSE [c1 EXCEPT !.pc = "r_query"]]
    /\ UNCHANGED <<db, nextId, cache, expiration, pre, last>>

\* Faulty variant: a durable query that fails is made again.
ReadUser_Query_Retry(p, o) ==
    /\ call[p].pc = "r_query"
    /\ LET c == [call[p] EXCEPT !.nQuery = @ + 1,
                               !.fault = IF o = "err" THEN "query" ELSE @]
           q == QueryRowScan(db, c.id, o, c.user)
       IN  call' = [call EXCEPT ![p] =
               IF q.err # Nil
               THEN IF q.err = ErrNoRows
                    THEN ReadReturn(c, ZeroUser, Nil)
                    ELSE IF c.nQuery < 2 THEN c
                    ELSE ReadReturn(c, ZeroUser,
                             Errorf("[in services.UsersService.ReadUser] failed to read user", q.err))
               ELSE [c EXCEPT !.user = q.v, !.pc = "r_set"]]
    /\ UNCHANGED <<db, nextId, cache, expiration, pre, last>>

ReadUser_Query(p, o) ==
    /\ call[p].pc = "r_query"
    /\ LET c == [call[p] EXCEPT !.nQuery = @ + 1,
                               !.fault = IF o = "err" THEN "query" ELSE @]
           q == QueryRowScan(db, c.id, o, c.user)
       IN  call' = [call EXCEPT ![p] =
               IF q.err # Nil
               THEN IF q.err = ErrNoRows
                    THEN ReadReturn(c, ZeroUser, Nil)
                    ELSE ReadReturn(c, ZeroUser,
                             Errorf("[in services.UsersService.ReadUser] failed to read user", q.err))
               ELSE [c EXCEPT !.user = q.v, !.pc = "r_set"]]
    /\ UNCHANGED <<db, nextId, cache, expiration, pre, last>>

ReadUser_Set(p, o) ==
    /\ call[p].pc = "r_set"
    /\ LET c == [call[p] EXCEPT !.nSet = @ + 1,
                               !.fault = IF o = "err" THEN "set" ELSE @]
           s == SetMarshal(cache, FormatUint(c.id), c.user, o)
       IN  /\ cache' = s.cache
           /\ call' = [call EXCEPT ![p] =
                  IF s.err # Nil
                  THEN ReadReturn(c, ZeroUser,
                           Errorf("[in services.UsersService.ReadUser] failed to write user to cache", s.err))
                  ELSE ReadReturn(c, c.user, Nil)]
    /\ UNCHANGED <<db, nextId, expiration, pre, last>>

----------------------------------------------------------------------------
\* UsersService.CreateUser

CreateUser_Insert(p, o) ==
    /\ call[p].pc = "c_insert"
    /\ nextId <= MaxId
    /\ LET c == [call[p] EXCEPT !.nExec = @ + 1,
                               !.fault = IF o = "err" THEN "exec" ELSE @]
           i == InsertReturning(db, nextId, c.arg, o)
       IN  /\ db' = i.db
           /\ nextId' = i.nextId
           /\ call' = [call EXCEPT ![p] =
                  IF i.err # Nil
                  THEN Done(c, ZeroUser,
                            Errorf("[in services.UsersService.CreateUser] failed to create user", i.err))
                  ELSE [c EXCEPT !.user = [c.arg EXCEPT !.ID = i.id], !.pc = "c_set"]]
    /\ UNCHANGED <<cache, expiration, pre, last>>

CreateUser_Set(p, o) ==
    /\ call[p].pc = "c_set"
    /\ LET c == [call[p] EXCEPT !.nSet = @ + 1,
                               !.fault = IF o = "err" THEN "set" ELSE @]
           s == SetMarshal(cache, Itoa(ToInt(c.user.ID)), c.user, o)
       IN  /\ cache' = s.cache
           /\ call' = [call EXCEPT ![p] =
                  IF s.err # Nil
                  THEN Done(c, ZeroUser,
                            Errorf("[in services.UsersService.CreateUser] failed to write user to cache", s.err))
                  ELSE Done(c, c.user, Nil)]
    /\ UNCHANGED <<db, nextId, expiration, pre, last>>

----------------------------------------------------------------------------
\* UsersService.UpdateUser

UpdateUser_Exec(p, o) ==
    /\ call[p].pc = "u_exec"
    /\ LET c == [call[p] EXCEPT !.nExec = @ + 1,
                               !.fault = IF o = "err" THEN "exec" ELSE @]
           x == ExecUpdate(db, c.id, c.arg, o)
       IN  /\ db' = x.db
           /\ call' = [call EXCEPT ![p] =
                  IF x.err # Nil
                  THEN Done(c, ZeroUser,
                            Errorf("[in services.UsersService.UpdateUser] failed to update user", x.err))
                  ELSE [c EXCEPT !.pc = "r_get"]]
    /\ UNCHANGED <<nextId, cache, expiration, pre, last>>

UpdateUser_Set(p, o) ==
    /\ call[p].pc = "u_set"
    /\ LET c == [call[p] EXCEPT !.nSet = @ + 1,
                               !.fault = IF o = "err" THEN "uset" ELSE @]
           s == SetMarshal(cache, FormatUint(c.id), c.rret, o)
       IN  /\ cache' = s.cache
           /\ call' = [call EXCEPT ![p] =
                  IF s.err # Nil
                  THEN Done(c, ZeroUser,
                            Errorf("[in services.UsersService.UpdateUser] failed to write updated user to cache", s.err))
                  ELSE Done(c, c.rret, Nil)]
    /\ UNCHANGED <<db, nextId, expiration, pre, last>>

----------------------------------------------------------------------------
\* UsersService.DeleteUser

\* Faulty variant: the cache entry is removed before the durable delete is known to
\* have succeeded.
DeleteUser_Exec_CacheFirst(p, o) ==
    /\ call[p].pc = "d_exec"
    /\ LET c == [call[p] EXCEPT !.nExec = @ + 1,
                               !.fault = IF o = "err" THEN "exec" ELSE @]
           x == ExecDelete(db, c.id, o)
       IN  /\ db' = x.db
           /\ cache' = CacheDel(cache, FormatUint(c.id))
           /\ call' = [call EXCEPT ![p] =
                  IF x.err # Nil
                  THEN Done(c, ZeroUser,
                            Errorf("[in services.UsersService.DeleteUser] failed to delete user", x.err))
                  ELSE [c EXCEPT !.pc = "d_del"]]
    /\ UNCHANGED <<nextId, expiration, pre, last>>

DeleteUser_Exec(p, o) ==
    /\ call[p].pc = "d_exec"
    /\ LET c == [call[p] EXCEPT !.nExec = @ + 1,
                               !.fault = IF o = "err" THEN "exec" ELSE @]
           x == ExecDelete(db, c.id, o)
       IN  /\ db' = x.db
           /\ call' = [call EXCEPT ![p] =
                  IF x.err # Nil
                  THEN Done(c, ZeroUser,
                            Errorf("[in services.UsersService.DeleteUser] failed to delete user", x.err))
                  ELSE [c EXCEPT !.pc = "d_del"]]
    /\ UNCHANGED <<nextId, cache, expiration, pre, last>>

DeleteUser_Del(p, o) ==
    /\ call[p].pc = "d_del"
    /\ LET c == [call[p] EXCEPT !.nDel = @ + 1,
                               !.fault = IF o = "err" THEN "del" ELSE @]
           d == RedisDel(cache, FormatUint(c.id), o)
       IN  /\ cache' = d.cache
           /\ call' = [call EXCEPT ![p] =
                  IF d.err # Nil
                  THEN Done(c, ZeroUser,
                            Errorf("[in services.UsersService.DeleteUser] failed to remove user from cache", d.err))
                  ELSE Done(c, ZeroUser, Nil)]
    /\ UNCHANGED <<db, nextId, expiration, pre, last>>

----------------------------------------------------------------------------
\* UsersService.ListUsers

BeginListUsers(p, seq) ==
    Begin(p, NewCall("ListUsers", "l_query", 0, ZeroUser), seq)

\* ListUsers returns (users, err); the deferred rows.Close() has run.
\* Faulty variant: ListUsers returns without closing its rows.
DoneList_LeavesOpen(c, users, err) ==
    [c EXCEPT !.pc = "done", !.users = users, !.err = err,
              !.rows = {}, !.user = ZeroUser]

DoneList(c, users, err) ==
    [c EXCEPT !.pc = "done", !.users = users, !.err = err,
              !.cursor = "closed", !.rows = {}, !.user = ZeroUser]

ListUsers_Query(p, o) ==
    /\ call[p].pc = "l_query"
    /\ LET c == [call[p] EXCEPT !.nQuery = @ + 1,
                               !.fault = IF o = "err" THEN "query" ELSE @]
           q == QueryContext(db, o)
       IN  call' = [call EXCEPT ![p] =
               IF q.err # Nil
               THEN [c EXCEPT !.pc = "done",
                              !.err = Errorf("[in services.UsersService.ListUsers] failed to list users", q.err)]
               ELSE [c EXCEPT !.cursor = "open", !.rows = q.rows, !.pc = "l_next"]]
    /\ UNCHANGED <<db, nextId, cache, expiration, pre, last>>

\* rows.Next(), and rows.Err() once it has returned false.  The result has
\* no ORDER BY: any row not yet delivered may come next.
ListUsers_Next(p, o) ==
    /\ call[p].pc = "l_next"
    /\ LET c == [call[p] EXCEPT !.fault = IF o = "err" THEN "next" ELSE @]
       IN  IF o = "err"
           THEN call' = [call EXCEPT ![p] =
                    DoneList(c, <<>>,
                        Errorf("[in services.UsersService.ListUsers] rows iteration error", ErrSQL))]
           ELSE IF c.rows = {}
           THEN call' = [call EXCEPT ![p] = DoneList(c, c.users, Nil)]
           ELSE \E r \in c.rows :
                    call' = [call EXCEPT ![p] =
                        [c EXCEPT !.user = r, !.rows = @ \ {r}, !.pc = "l_scan"]]
    /\ UNCHANGED <<db, nextId, cache, expiration, pre, last>>

ListUsers_Scan(p, o) ==
    /\ call[p].pc = "l_scan"
    /\ LET c == [call[p] EXCEPT !.fault = IF o = "err" THEN "scan" ELSE @]
       IN  call' = [call EXCEPT ![p] =
               IF o = "err"
               THEN DoneList(c, <<>>,
                        Errorf("[in services.UsersService.ListUsers] failed to scan user", ErrSQL))
               ELSE [c EXCEPT !.users = Append(@, c.user), !.user = ZeroUser,
                              !.pc = "l_next"]]
    /\ UNCHANGED <<db, nextId, cache, expiration, pre, last>>

----------------------------------------------------------------------------
\* UsersService.ReadUser of the service that holds the redis client itself
\* (the service cmd/api constructs); its other methods touch neither store.

BeginReadUserRdb(p, seq) ==
    \E id \in Ids : Begin(p, NewCall("ReadUser", "rr_get", id, ZeroUser), seq)

ReadUserRdb_Get(p, o) ==
    /\ call[p].pc = "rr_get"
    /\ LET c == [call[p] EXCEPT !.nGet = @ + 1,
                               !.fault = IF o = "err" THEN "get" ELSE @]
           cmd == RedisGet(cache, FormatUint(c.id), o)
           d == JSONUnmarshal(cmd.val, ZeroUser)
       IN  call' = [call EXCEPT ![p] =
               IF cmd.err = RedisNil THEN [c EXCEPT !.pc = "rr_query"]
               ELSE IF cmd.err # Nil
               THEN Done(c, ZeroUser,
                        Errorf("[in services.UsersService.ReadUser] failed to read user from cache", cmd.err))
               ELSE IF cmd.val = EmptyString THEN [c EXCEPT !.pc = "rr_query"]
               ELSE IF d.err # Nil
               THEN Done([c EXCEPT !.fault = "decode"], ZeroUser,
                        Errorf("[in services.UsersService.ReadUser] failed to unmarshal user from cache", d.err))
               ELSE Done([c EXCEPT !.user = d.v, !.found = TRUE], d.v, Nil)]
    /\ UNCHANGED <<db, nextId, cache, expiration, pre, last>>

ReadUserRdb_Query(p, o) ==
    /\ call[p].pc = "rr_query"
    /\ LET c == [call[p] EXCEPT !.nQuery = @ + 1,
                               !.fault = IF o = "err" THEN "query" ELSE @]
           q == QueryRowScan(db, c.id, o, ZeroUser)
       IN  call' = [call EXCEPT ![p] =
               IF q.err # Nil
               THEN IF q.err = ErrNoRows
                    THEN Done(c, ZeroUser, Nil)
                    ELSE Done(c, ZeroUser,
                             Errorf("[in services.UsersService.ReadUser] failed to read user", q.err))
               ELSE [c EXCEPT !.user = q.v, !.pc = "rr_set"]]
    /\ UNCHANGED <<db, nextId, cache, expiration, pre, last>>

ReadUserRdb_Set(p, o) ==
    /\ call[p].pc = "rr_set"
    /\ LET c == [call[p] EXCEPT !.nSet = @ + 1,
                               !.fault = IF o = "err" THEN "set" ELSE @]
           jsonData == Marshal(c.user)
           s == RedisSet(cache, FormatUint(c.id), jsonData, 0, o)
       IN  /\ cache' = s.cache
           /\ call' = [call EXCEPT ![p] =
                  IF s.err # Nil
                  THEN Done(c, ZeroUser,
                           Errorf("[in services.UsersService.ReadUser] failed to write user to cache", s.err))
                  ELSE Done(c, c.user, Nil)]
    /\ UNCHANGED <<db, nextId, expiration, pre, last>>

----------------------------------------------------------------------------
\* The redis server and its other clients, between calls of the service.

\* Some other client stores a value the service did not write.
ForeignSet ==
    /\ Quiescent
    /\ \E id \in Ids, raw \in {NotJSON, EmptyString} :
           cache' = CachePut(cache, FormatUint(id), raw, 0)
    /\ last' = NoLast
    /\ UNCHANGED <<db, nextId, expiration, call, pre, hist>>

\* An entry written with an expiration reaches it.
Expire ==
    /\ Quiescent
    /\ \E e \in cache : e.ttl > 0 /\ cache' = cache \ {e}
    /\ last' = NoLast
    /\ UNCHANGED <<db, nextId, expiration, call, pre, hist>>

----------------------------------------------------------------------------
\* A step of request goroutine p.
Step(p, seq, faulty) ==
    \E o \in Outcomes(faulty) :
        \/ BeginCreateUser(p, seq)
        \/ BeginReadUser(p, seq)
        \/ BeginUpdateUser(p, seq)
        \/ BeginDeleteUser(p, seq)
        \/ ReadUser_Get(p, o)
        \/ ReadUser_Query(p, o)
        \/ ReadUser_Set(p, o)
        \/ CreateUser_Insert(p, o)
        \/ CreateUser_Set(p, o)
        \/ UpdateUser_Exec(p, o)
        \/ UpdateUser_Set(p, o)
        \/ DeleteUser_Exec(p, o)
        \/ DeleteUser_Del(p, o)
        \/ BeginListUsers(p, seq)
        \/ ListUsers_Query(p, o)
        \/ ListUsers_Next(p, o)
        \/ ListUsers_Scan(p, o)
        \/ Return(p, seq)

\* Requests served concurrently, stores that do not fail.
Next == \E p \in Procs : Step(p, FALSE, FALSE) /\ UNCHANGED hist

Spec == Init /\ [][Next]_vars

\* Requests served one at a time; any store call may fail, other clients
\* write to redis and entries expire between calls.
NextSeq ==
    \/ Step(1, TRUE, TRUE) /\ UNCHANGED hist
    \/ ForeignSet
    \/ Expire

SpecSeq == Init /\ [][NextSeq]_vars

\* Requests served one at a time with no other client of redis and no entry
\* expiring: what sequences of service calls alone can do.  The rows the
\* table has held are recorded.
NextOps ==
    Step(1, TRUE, TRUE) /\ held' = held \cup db' /\ UNCHANGED <<stale, orphan, outer>>

SpecOps == Init /\ [][NextOps]_vars

\* The redis server's clock ticks: every entry that was written with an
\* expiration has one tick less to live, and is removed when none is left.
Tick ==
    /\ Quiescent
    /\ cache' = {[e EXCEPT !.ttl = IF @ = 0 THEN 0 ELSE @ - 1] :
                     e \in {x \in cache : x.ttl # 1}}
    /\ stale' = [stale EXCEPT !.left = IF @ = 0 THEN 0 ELSE @ - 1]
    /\ last' = NoLast
    /\ UNCHANGED <<db, nextId, expiration, call, pre, held, orphan, outer>>

\* What is remembered when goroutine p takes a step: a DeleteUser that has
\* deleted a row and whose cache delete fails leaves the row's entry behind,
\* with the time that entry has left since the write that created it.
StaleAfter(p) ==
    LET c == call[p]
        key == FormatUint(c.id)
    IN  IF /\ c.pc = "d_del" /\ call'[p].fault = "del"
           /\ HasRow(pre.db, c.id) /\ CacheHas(cache, key)
        THEN [id |-> c.id, left |-> CacheEntry(cache, key).ttl]
        ELSE stale

\* Requests served one at a time while the clock runs; any store call may
\* fail.
NextClock ==
    \/ Step(1, TRUE, TRUE) /\ stale' = StaleAfter(1) /\ UNCHANGED <<held, orphan, outer>>
    \/ Tick

SpecClock == Init /\ [][NextClock]_vars

\* The service that holds the redis client itself creates no row: it runs
\* on a table that already has rows.
SeedRows == {[u EXCEPT !.ID = id] : id \in Ids, u \in InputUsers}

InitRdb ==
    /\ db \in {t \in SUBSET SeedRows : \A r1 \in t, r2 \in t : r1.ID = r2.ID => r1 = r2}
    /\ nextId = MaxId + 1
    /\ cache = {}
    /\ expiration \in Durations
    /\ call = [p \in Procs |-> IdleCall]
    /\ pre = NoPre
    /\ last = NoLast
    /\ held = db
    /\ stale = NoStale
    /\ orphan = 0
    /\ req = IdleReq
    /\ srv = ServerOff

StepRdb(p, seq, faulty) ==
    \E o \in Outcomes(faulty) :
        \/ BeginReadUserRdb(p, seq)
        \/ ReadUserRdb_Get(p, o)
        \/ ReadUserRdb_Query(p, o)
        \/ ReadUserRdb_Set(p, o)
        \/ Return(p, seq)

\* Requests served one at a time by that service; any store call may fail.
NextRdb == StepRdb(1, TRUE, TRUE) /\ UNCHANGED hist

SpecRdb == InitRdb /\ [][NextRdb]_vars

----------------------------------------------------------------------------
\* The row a CreateUser leaves behind when its INSERT succeeds and its cache
\* write fails: its id is remembered while the calls that follow only read
\* (ReadUser, ListUsers), and forgotten when a call that writes begins.
OrphanAfter(p) ==
    LET c == call'[p]
    IN  IF c.op = "CreateUser" /\ c.pc = "done" /\ c.fault = "set"
        THEN c.user.ID
        ELSE IF c.op \in {"CreateUser", "UpdateUser", "DeleteUser"}
        THEN 0
        ELSE orphan

\* Requests served one at a time; any store call may fail.
NextCreate ==
    Step(1, TRUE, TRUE) /\ orphan' = OrphanAfter(1) /\ UNCHANGED <<held, stale, outer>>

SpecCreate == Init /\ [][NextCreate]_vars

----------------------------------------------------------------------------
\* CreateUser and ReadUser calls only, one at a time, while the clock of the
\* redis server advances between them; any store call may fail.

StepRead(p, seq, faulty) ==
    \E o \in Outcomes(faulty) :
        \/ BeginCreateUser(p, seq)
        \/ CreateUser_Insert(p, o)
        \/ CreateUser_Set(p, o)
        \/ BeginReadUser(p, seq)
        \/ ReadUser_Get(p, o)
        \/ ReadUser_Query(p, o)
        \/ ReadUser_Set(p, o)
        \/ Return(p, seq)

NextRead ==
    \/ StepRead(1, TRUE, TRUE) /\ UNCHANGED hist
    \/ Tick

SpecRead == Init /\ [][NextRead]_vars

----------------------------------------------------------------------------
\* ReadUser and DeleteUser calls only, each on its own goroutine, on a table
\* that already has rows and a cold cache; no store call fails and no entry
\* expires.

StepRace(p, seq, faulty) ==
    \E o \in Outcomes(faulty) :
        \/ BeginReadUser(p, seq)
        \/ ReadUser_Get(p, o)
        \/ ReadUser_Query(p, o)
        \/ ReadUser_Set(p, o)
        \/ BeginDeleteUser(p, seq)
        \/ DeleteUser_Exec(p, o)
        \/ DeleteUser_Del(p, o)
        \/ Return(p, seq)

NextRace == \E p \in Procs : StepRace(p, FALSE, FALSE) /\ UNCHANGED hist

SpecRace == InitRdb /\ [][NextRace]_vars

----------------------------------------------------------------------------
\* The keys of the cache, for every identifier a word can hold: the INSERT of
\* a CreateUser has just returned the identifier n of the row it added.

InitKey ==
    \E n \in 1..MaxUint, u \in InputUsers :
        /\ db = {[u EXCEPT !.ID = n]}
        /\ nextId = n + 1
        /\ cache = {}
        /\ expiration \in Durations
        /\ call = [p \in Procs |->
                     IF p = 1
                     THEN [NewCall("CreateUser", "c_set", 0, u) EXCEPT
                               !.user = [u EXCEPT !.ID = n], !.nExec = 1]
                     ELSE IdleCall]
        /\ pre = NoPre
        /\ last = NoLast
        /\ held = db
        /\ stale = NoStale
        /\ orphan = 0
        /\ req = IdleReq
        /\ srv = ServerOff

\* Requests for the id of a row of the table.
BeginReadUserOfRow(p, seq) ==
    \E r \in db : Begin(p, NewCall("ReadUser", "r_get", r.ID, ZeroUser), seq)

BeginDeleteUserOfRow(p, seq) ==
    \E r \in db : Begin(p, NewCall("DeleteUser", "d_exec", r.ID, ZeroUser), seq)

StepKey(p, seq, faulty) ==
    \E o \in Outcomes(faulty) :
        \/ CreateUser_Set(p, o)
        \/ BeginReadUserOfRow(p, seq)
        \/ ReadUser_Get(p, o)
        \/ ReadUser_Query(p, o)
        \/ ReadUser_Set(p, o)
        \/ BeginDeleteUserOfRow(p, seq)
        \/ DeleteUser_Exec(p, o)
        \/ DeleteUser_Del(p, o)
        \/ Return(p, seq)

\* Requests served one at a time, without failures.
NextKey == StepKey(1, TRUE, FALSE) /\ UNCHANGED hist

SpecKey == InitKey /\ [][NextKey]_vars

----------------------------------------------------------------------------
\* handlers.HandleReadUser, in front of UsersService.ReadUser.

ErrSyntax == <<"strconv.Atoi: invalid syntax">>
ErrRange == <<"strconv.Atoi: value out of range">>

\* The range of int, here of WordBits bits.
MaxInt == 2^(WordBits - 1) - 1
MinInt == 0 - 2^(WordBits - 1)

IsDigit(ch) == \E d \in 1..10 : DigitChars[d] = ch

\* strconv.Atoi(s): an optional sign and decimal digits, within the range of
\* int.
Atoi(s) ==
    LET signed == Len(s) > 0 /\ s[1] \in {"+", "-"}
        digits == IF signed THEN Tail(s) ELSE s
    IN  IF digits = <<>> \/ \E i \in 1..Len(digits) : ~IsDigit(digits[i])
        THEN [v |-> 0, err |-> ErrSyntax]
        ELSE LET n == ParseUint(digits)
                 v == IF signed /\ s[1] = "-" THEN 0 - n ELSE n
             IN  IF v > MaxInt THEN [v |-> MaxInt, err |-> ErrRange]
                 ELSE IF v < MinInt THEN [v |-> MinInt, err |-> ErrRange]
                 ELSE [v |-> v, err |-> Nil]

\* uint64(id) of an id of type int: the same word read as unsigned.
ToUint64(i) == IF i < 0 THEN i + 2^WordBits ELSE i

\* The values of the {id} segment of the path that requests carry.
PathValues ==
    { <<"0">>, <<"1">>, <<"2">>, <<"0", "1">>, <<"+", "2">>, <<"-", "1">>,
      <<"a">>, <<"1", "x">>, <<"-">>, <<"9", "9", "9">> }

\* http.ResponseWriter: the first WriteHeader sets the status, a later one
\* is superfluous and ignored; a Write reaches the client unless the
\* connection is broken.
WriteHeader(rq, code) ==
    IF rq.status = 0
    THEN [rq EXCEPT !.status = code, !.nHeader = @ + 1]
    ELSE rq

Write(rq, data, o) ==
    IF o = "err" THEN rq ELSE [rq EXCEPT !.body = @ \o data]

\* http.Error(w, msg, code)
HttpError(rq, msg, code, o) == Write(WriteHeader(rq, code), <<msg>>, o)

\* json.NewEncoder(w).Encode(response) of a readUserResponse
Encode(response) ==
    <<"{", FormatUint(response.ID), response.Name, response.Email,
      response.Password, "}">>

\* Faulty variant: a record without identifier is answered with 404.
Respond_NotFound(rq, user, err, o) ==
    IF err # Nil
    THEN HttpError(rq, "Internal Server Error", 500, o)
    ELSE IF user.ID = 0
    THEN HttpError(rq, "Not Found", 404, o)
    ELSE LET response == [ID |-> user.ID, Name |-> user.Name,
                          Email |-> user.Email, Password |-> user.Password]
             h == WriteHeader(rq, 200)
         IN  IF o = "err"
             THEN HttpError(h, "Internal Server Error", 500, o)
             ELSE Write(h, Encode(response), o)

\* What the handler answers once ReadUser has returned (user, err).
Respond(rq, user, err, o) ==
    IF err # Nil
    THEN HttpError(rq, "Internal Server Error", 500, o)
    ELSE LET response == [ID |-> user.ID, Name |-> user.Name,
                          Email |-> user.Email, Password |-> user.Password]
             h == WriteHeader(rq, 200)
         IN  IF o = "err"
             THEN HttpError(h, "Internal Server Error", 500, o)
             ELSE Write(h, Encode(response), o)

\* A request arrives: the handler parses the id of the path and either
\* answers 400 or calls ReadUser.
HandleReadUser_Parse(o) ==
    /\ req.pc \in {"idle", "done"}
    /\ Quiescent
    /\ \E s \in PathValues :
           LET a == Atoi(s)
               rq == [IdleReq EXCEPT !.idStr = s, !.parsed = a.v]
           IN  IF a.err # Nil
               THEN /\ req' = [HttpError(rq, "Invalid ID", 400, o) EXCEPT !.pc = "done"]
                    /\ UNCHANGED <<db, nextId, cache, expiration, call, pre, last>>
               ELSE /\ req' = [rq EXCEPT !.pc = "reading", !.called = TRUE,
                                         !.id = ToUint64(a.v)]
                    /\ Begin(1, NewCall("ReadUser", "r_get", ToUint64(a.v), ZeroUser), TRUE)

\* ReadUser has returned to the handler, which answers.
HandleReadUser_Respond(o) ==
    /\ req.pc = "reading"
    /\ call[1].pc = "done"
    /\ req' = [Respond([req EXCEPT !.user = call[1].ret, !.err = call[1].err],
                       call[1].ret, call[1].err, o)
                  EXCEPT !.pc = "done"]
    /\ Return(1, TRUE)

\* The service behind the handler: rows come into the table by CreateUser
\* calls, which return to their own callers.
StepHttp(p, seq, faulty) ==
    \E o \in Outcomes(faulty) :
        \/ BeginCreateUser(p, seq)
        \/ CreateUser_Insert(p, o)
        \/ CreateUser_Set(p, o)
        \/ ReadUser_Get(p, o)
        \/ ReadUser_Query(p, o)
        \/ ReadUser_Set(p, o)
        \/ call[p].op = "CreateUser" /\ Return(p, seq)

HandleReadUser(faulty) ==
    \E o \in Outcomes(faulty) :
        \/ HandleReadUser_Parse(o)
        \/ HandleReadUser_Respond(o)

\* Requests served one at a time; any store call and any write of a response
\* may fail.
NextHttp ==
    \/ StepHttp(1, TRUE, TRUE) /\ UNCHANGED hist
    \/ HandleReadUser(TRUE) /\ UNCHANGED <<held, stale, orphan, srv>>

SpecHttp == Init /\ [][NextHttp]_vars

----------------------------------------------------------------------------
\* main.run from the moment the server listens: the main goroutine in
\* ListenAndServe and then in its select, the signal goroutine, the variable
\* err they share, errChan and the run context.

ErrServerClosed == <<"http: Server closed">>
ErrDeadline == <<"context deadline exceeded">>
ErrCanceled == <<"context canceled">>
ErrClose == <<"close tcp: use of closed network connection">>

\* errors.Is(err, target), for a target that wraps nothing
ErrorsIs(err, target) == \E i \in 1..Len(err) : <<err[i]>> = target

\* The server listens; the signal goroutine waits on its channel.  err is
\* nil, as database.Connect left it.
InitRun ==
    /\ db = {}
    /\ nextId = 1
    /\ cache = {}
    /\ expiration \in Durations
    /\ call = [p \in Procs |-> IdleCall]
    /\ pre = NoPre
    /\ last = NoLast
    /\ held = {}
    /\ stale = NoStale
    /\ orphan = 0
    /\ req = IdleReq
    /\ srv = [ServerOff EXCEPT !.main = "serve", !.sig = "wait"]

\* A step of main.run: only srv changes.
SrvStep(new) ==
    /\ srv' = new
    /\ UNCHANGED <<db, nextId, cache, expiration, call, pre, last,
                   held, stale, orphan, req>>

\* Clients open connections while the server accepts, and requests on them
\* end.
ConnOpen ==
    /\ srv.main = "serve" /\ ~srv.inShutdown
    /\ srv.conns < MaxConns
    /\ SrvStep([srv EXCEPT !.conns = @ + 1])

ConnClose ==
    /\ srv.main # "off"
    /\ srv.conns > 0
    /\ SrvStep([srv EXCEPT !.conns = @ - 1])

\* The process is sent SIGINT: signal.Notify puts it into sig.
Sigint ==
    /\ srv.main = "serve" /\ srv.sig = "wait" /\ ~srv.sigint
    /\ SrvStep([srv EXCEPT !.sigint = TRUE])

\* <-sig, and the context with the timeout.
Sig_Receive ==
    /\ srv.sig = "wait" /\ srv.sigint
    /\ SrvStep([srv EXCEPT !.sig = "shutdown"])

\* httpServer.Shutdown(ctx) begins: the server is in shutdown and its
\* listeners are closed, which may fail.
Sig_Shutdown ==
    /\ srv.sig = "shutdown"
    /\ \E o \in Outcomes(TRUE) :
           SrvStep([srv EXCEPT !.sig = "draining", !.inShutdown = TRUE,
                               !.lnerr = (o = "err")])

\* The timeout of the context of Shutdown passes.
Deadline ==
    /\ srv.sig = "draining" /\ ~srv.deadline
    /\ SrvStep([srv EXCEPT !.deadline = TRUE])

\* What Shutdown returns: the error of closing the listeners once no
\* connection is active, the error of its context once that is done.
ShutdownResult(sv) ==
    IF sv.conns = 0 THEN (IF sv.lnerr THEN ErrClose ELSE Nil)
    ELSE IF sv.deadline THEN ErrDeadline
    ELSE ErrCanceled

\* Shutdown returns and its result is assigned to err.
Sig_ShutdownReturns ==
    /\ srv.sig = "draining"
    /\ srv.conns = 0 \/ srv.deadline \/ srv.cancelled
    /\ LET e == ShutdownResult(srv)
       IN  SrvStep([srv EXCEPT !.sig = "check", !.err = e, !.sderr = e,
                               !.shutdown = IF e = Nil THEN "ok" ELSE "failed"])

\* `err != nil` of the signal goroutine: it goes to send on errChan, or
\* calls done() and ends.
Sig_Check ==
    /\ srv.sig = "check"
    /\ SrvStep(IF srv.err # Nil
               THEN [srv EXCEPT !.sig = "send",
                                !.msg = Errorf("[in main.run] failed to shutdown http server", srv.err)]
               ELSE [srv EXCEPT !.sig = "done", !.cancelled = TRUE])

\* ListenAndServe returns once the server is in shutdown, and its result is
\* assigned to err.
Main_ListenReturns ==
    /\ srv.main = "serve" /\ srv.inShutdown
    /\ SrvStep([srv EXCEPT !.main = "check_nil", !.err = ErrServerClosed])

\* `err != nil`
Main_CheckNil ==
    /\ srv.main = "check_nil"
    /\ SrvStep([srv EXCEPT !.main = IF srv.err # Nil THEN "check_is" ELSE "select"])

\* `!errors.Is(err, http.ErrServerClosed)`
Main_CheckIs ==
    /\ srv.main = "check_is"
    /\ SrvStep([srv EXCEPT !.main =
                   IF ErrorsIs(srv.err, ErrServerClosed) THEN "select" ELSE "switch"])

\* The switch: `case errors.Is(err, http.ErrServerClosed)` breaks.
Main_Switch ==
    /\ srv.main = "switch"
    /\ SrvStep([srv EXCEPT !.main =
                   IF ErrorsIs(srv.err, ErrServerClosed) THEN "select" ELSE "wrap"])

\* The default case returns the wrapped err; the deferred done() runs.
Main_Wrap ==
    /\ srv.main = "wrap"
    /\ SrvStep([srv EXCEPT !.main = "returned", !.cancelled = TRUE,
                           !.ret = Errorf("[in main.run] failed to listen and serve", srv.err)])

\* The select: `case err = <-errChan`, the signal goroutine's send and the
\* receive being one step of the unbuffered channel.
Main_SelectErr ==
    /\ srv.main = "select" /\ srv.sig = "send"
    /\ SrvStep([srv EXCEPT !.main = "returned", !.sig = "done",
                           !.err = srv.msg, !.ret = srv.msg,
                           !.cancelled = TRUE])

\* The select: `case <-ctx.Done()`.
Main_SelectDone ==
    /\ srv.main = "select" /\ srv.cancelled
    /\ SrvStep([srv EXCEPT !.main = "returned", !.ret = Nil])

MainStep ==
    \/ Main_ListenReturns
    \/ Main_CheckNil
    \/ Main_CheckIs
    \/ Main_Switch
    \/ Main_Wrap
    \/ Main_SelectErr
    \/ Main_SelectDone

SigStep ==
    \/ Sig_Receive
    \/ Sig_Shutdown
    \/ Sig_ShutdownReturns
    \/ Sig_Check

NextRun ==
    \/ ConnOpen
    \/ ConnClose
    \/ Sigint
    \/ Deadline
    \/ MainStep
    \/ SigStep

\* Both goroutines are scheduled as long as they can take a step, and time
\* passes.
SpecRun ==
    /\ InitRun
    /\ [][NextRun]_vars
    /\ WF_vars(MainStep)
    /\ WF_vars(SigStep)
    /\ WF_vars(Deadline)

----------------------------------------------------------------------------
\* Properties of the service.

\* The record a patch turns the row with this id into.
Patched(id, patch) ==
    [ID |-> id, Name |-> patch.Name, Email |-> patch.Email,
     Password |-> patch.Password]

\* Goroutine p has finished a ReadUser that a request called directly.
ReadDone(p) == call[p].op = "ReadUser" /\ call[p].pc = "done"

\* C1: a ReadUser of an id that has a durable row R and no cache entry makes
\* exactly one durable query and exactly one cache write, of R under the id's
\* key, and returns R; the ReadUser of the same id that follows it makes no
\* durable query and returns the same R from the cache.
CacheAsideRead ==
    \A p \in Procs :
        LET c == call[p]
            key == FormatUint(c.id)
        IN  (ReadDone(p) /\ c.fault = "none") =>
                /\ (HasRow(pre.db, c.id) /\ ~CacheHas(pre.cache, key)) =>
                       /\ c.nQuery = 1
                       /\ c.nSet = 1
                       /\ cache = CachePut(pre.cache, key, Marshal(Row(pre.db, c.id)), expiration)
                       /\ c.ret = Row(pre.db, c.id)
                       /\ c.err = Nil
                /\ (/\ last.valid /\ last.op = "ReadUser" /\ last.id = c.id
                    /\ last.hadRow /\ ~last.hadEntry) =>
                       /\ c.nQuery = 0
                       /\ c.nSet = 0
                       /\ c.found
                       /\ c.ret = last.ret
                       /\ c.ret = Row(db, c.id)
                       /\ c.err = Nil

\* A cold read of an existing row has been followed by a second read of it.
CacheAsideReadWitness ==
    \E p \in Procs :
        /\ ReadDone(p) /\ call[p].fault = "none"
        /\ last.valid /\ last.op = "ReadUser" /\ last.id = call[p].id
        /\ last.hadRow /\ ~last.hadEntry
        /\ call[p].ret = last.ret /\ call[p].ret # ZeroUser

\* C2: a ReadUser that follows a successful UpdateUser(id, patch) of an id
\* with a durable row returns the patched record, whether or not the id had a
\* cache entry before the update.
UpdateRecache ==
    \A p \in Procs :
        LET c == call[p]
        IN  (/\ ReadDone(p) /\ c.fault = "none"
             /\ last.valid /\ last.op = "UpdateUser" /\ last.id = c.id
             /\ last.hadRow) =>
                (c.err = Nil /\ c.ret = Patched(c.id, last.arg))

\* C3: when no call is in progress every cache entry holds exactly the
\* current durable row of its id, and no id without a durable row has one.
CacheStoreCoherence ==
    Quiescent =>
        \A e \in cache :
            \E r \in db : e.key = FormatUint(r.ID) /\ e.val = Marshal(r)

\* C4: after a successful DeleteUser(id) neither the cache entry nor the
\* durable row of id exists, and the ReadUser(id) that follows misses the
\* cache, queries durable storage once and returns the zero record, no error.
DeleteRemovesCache ==
    /\ (Quiescent /\ last.valid /\ last.op = "DeleteUser") =>
           (~CacheHas(cache, FormatUint(last.id)) /\ ~HasRow(db, last.id))
    /\ \A p \in Procs :
           LET c == call[p]
           IN  (/\ ReadDone(p) /\ c.fault = "none"
                /\ last.valid /\ last.op = "DeleteUser" /\ last.id = c.id) =>
                   /\ ~c.found
                   /\ c.nGet = 1 /\ c.nQuery = 1 /\ c.nSet = 0
                   /\ c.ret = ZeroUser
                   /\ c.err = Nil

\* A cached, stored user has been deleted and then read.
DeleteRemovesCacheWitness ==
    \E p \in Procs :
        /\ ReadDone(p) /\ call[p].fault = "none"
        /\ last.valid /\ last.op = "DeleteUser" /\ last.id = call[p].id
        /\ last.hadRow /\ last.hadEntry
        /\ call[p].nQuery = 1

\* C5: DeleteUser issues the cache delete only after the durable delete has
\* succeeded; when the durable delete fails it returns an error and leaves
\* the whole cache (and the table) as it was before the call.
DeleteOrdering ==
    \A p \in Procs :
        LET c == call[p]
        IN  c.op = "DeleteUser" =>
                /\ (c.pc = "d_exec") => (cache = pre.cache /\ c.nDel = 0)
                /\ (c.nDel > 0) => (c.nExec = 1 /\ c.fault # "exec")
                /\ (c.pc = "done" /\ c.fault = "exec") =>
                       /\ c.err # Nil
                       /\ c.nDel = 0
                       /\ cache = pre.cache
                       /\ db = pre.db

\* A durable delete failed for an id that has a row and a cache entry.
DeleteOrderingWitness ==
    \E p \in Procs :
        /\ call[p].op = "DeleteUser" /\ call[p].pc = "done"
        /\ call[p].fault = "exec"
        /\ HasRow(db, call[p].id)
        /\ CacheHas(cache, FormatUint(call[p].id))

\* C6: a ReadUser of an id that is in neither the cache nor durable storage
\* returns the zero record, with no error unless a store call failed, and
\* writes no cache entry, however often it is repeated.
NotFoundIdempotence ==
    \A p \in Procs :
        LET c == call[p]
        IN  (/\ ReadDone(p)
             /\ ~HasRow(pre.db, c.id)
             /\ ~CacheHas(pre.cache, FormatUint(c.id))) =>
                /\ c.ret = ZeroUser
                /\ (c.fault = "none") => (c.err = Nil)
                /\ c.nSet = 0
                /\ cache = pre.cache
                /\ db = pre.db

\* An absent id has been read twice in succession.
NotFoundIdempotenceWitness ==
    \E p \in Procs :
        /\ ReadDone(p) /\ call[p].fault = "none"
        /\ ~HasRow(pre.db, call[p].id)
        /\ ~CacheHas(pre.cache, FormatUint(call[p].id))
        /\ last.valid /\ last.op = "ReadUser" /\ last.id = call[p].id
        /\ ~last.hadRow /\ ~last.hadEntry
        /\ call[p].nQuery = 1

DecodeFailureDistinction ==
    \A p \in Procs :
        LET c == call[p]
        IN  (c.rdone /\ c.fault = "decode") =>
                /\ ~c.found
                /\ c.rerr = Errorf("[in services.UsersService.ReadUser] failed to read user from cache",
                                   Errorf("[in services.StringCmd.Unmarshal] failed to unmarshal from cache", ErrJSON))
                /\ c.rret = ZeroUser
                /\ c.nQuery = 0
                /\ (c.op = "ReadUser") => (c.pc = "done" /\ c.err = c.rerr /\ c.ret = ZeroUser)

\* A ReadUser met an undecodable cache value for an id that has a row.
DecodeFailureDistinctionWitness ==
    \E p \in Procs :
        /\ ReadDone(p) /\ call[p].fault = "decode"
        /\ HasRow(db, call[p].id)
        /\ CacheEntry(cache, FormatUint(call[p].id)).val = NotJSON

\* C9: when the cache lookup of ReadUser fails with a transport or a decode
\* error, ReadUser returns an error and neither queries durable storage nor
\* writes the cache, also when durable storage holds a row for the id.
NoFallThrough ==
    \A p \in Procs :
        LET c == call[p]
        IN  (c.fault \in {"get", "decode"}) =>
                /\ c.rdone
                /\ c.rerr # Nil
                /\ c.rret = ZeroUser
                /\ c.nQuery = 0 /\ c.nSet = 0
                /\ c.pc = "done" /\ c.err # Nil
                /\ (c.op = "ReadUser") => (cache = pre.cache /\ db = pre.db)

\* The cache lookup failed in transit for an id that has a row.
NoFallThroughWitness ==
    \E p \in Procs :
        /\ ReadDone(p) /\ call[p].fault = "get"
        /\ HasRow(db, call[p].id)

\* C10: when ReadUser misses the cache, durable storage returns a row and
\* the cache write then fails, ReadUser returns an error with the zero record
\* and not the row; durable storage and the cache are unchanged.
CacheWriteFailure ==
    \A p \in Procs :
        LET c == call[p]
        IN  (c.rdone /\ c.fault = "set") =>
                /\ ~c.found /\ c.nQuery = 1 /\ HasRow(db, c.id)
                /\ c.rerr # Nil
                /\ c.rret = ZeroUser
                /\ (c.op = "ReadUser") =>
                       /\ c.err # Nil /\ c.ret = ZeroUser
                       /\ db = pre.db
                       /\ cache = pre.cache

\* A directly called ReadUser read a row and then failed to cache it.
CacheWriteFailureWitness ==
    \E p \in Procs :
        /\ ReadDone(p) /\ call[p].fault = "set"
        /\ call[p].user # ZeroUser
        /\ call[p].ret = ZeroUser

\* C11: in every state that sequences of service calls reach, each cache
\* entry holds, under the key of an id, the encoding of a row that the table
\* holds or has held under that id; no entry holds a value the table never
\* stored under its id, and no id that never had a row has an entry.
CacheDerived ==
    \A e \in cache :
        \E r \in held : e.key = FormatUint(r.ID) /\ e.val = Marshal(r)

\* C12: when CreateUser is about to write the cache entry of the id the
\* table has just assigned, the cache holds no entry under that id's key,
\* whatever service calls came before.
CreateIsCacheInsert ==
    \A p \in Procs :
        call[p].pc = "c_set" => ~CacheHas(cache, Itoa(ToInt(call[p].user.ID)))

\* C13: the record a successful UpdateUser(id, patch) returns is the row of
\* id as queried from the table after the write (the re-read goes to the
\* table, not to the cache), and that record is what the cache holds under
\* the key of id when UpdateUser returns.
UpdateReturnsStoredRow ==
    \A p \in Procs :
        LET c == call[p]
            key == FormatUint(c.id)
        IN  (/\ c.op = "UpdateUser" /\ c.pc = "done" /\ c.fault = "none"
             /\ HasRow(pre.db, c.id)) =>
                /\ c.err = Nil
                /\ c.nQuery = 1
                /\ c.ret = Row(db, c.id)
                /\ CacheHas(cache, key)
                /\ CacheEntry(cache, key).val = Marshal(c.ret)

\* C14: when two UpdateUser calls of the same id, which has a row, are in
\* progress together and both have succeeded, the cache entry of the id
\* holds a value of the row after one of the two updates (the row as
\* re-read by the call that recached last), never the value that was cached
\* before either update began.
ConcurrentUpdateRecache ==
    \A p \in Procs : \A q \in Procs \ {p} :
        LET c == call[p]
            d == call[q]
            key == FormatUint(c.id)
        IN  (/\ c.op = "UpdateUser" /\ c.pc = "done" /\ c.err = Nil
             /\ d.op = "UpdateUser" /\ d.pc = "done" /\ d.err = Nil
             /\ c.id = d.id /\ HasRow(db, c.id)) =>
                /\ CacheHas(cache, key)
                /\ CacheEntry(cache, key).val \in
                       {Marshal(Patched(c.id, c.arg)), Marshal(Patched(d.id, d.arg))}

\* C15: a DeleteUser(id) that deletes the row and whose cache delete fails
\* returns an error and the row stays deleted; the entry it leaves behind is
\* served by ReadUser(id) for at most one expiration counted from the write
\* that created the entry: once that time has passed, whatever service calls
\* were made on id in between, ReadUser(id) returns the zero record.
BoundedStaleness ==
    /\ stale.id # 0 => ~HasRow(db, stale.id)
    /\ \A p \in Procs :
           LET c == call[p]
           IN  /\ (c.op = "DeleteUser" /\ c.pc = "done" /\ c.fault = "del") =>
                      (c.err # Nil /\ ~HasRow(db, c.id))
               /\ (/\ ReadDone(p) /\ c.fault = "none"
                   /\ c.id = stale.id /\ stale.left = 0) =>
                      (c.err = Nil /\ c.ret = ZeroUser)

\* C16: every cache entry the service has written carries the one expiration
\* configured at construction: no write of the service makes an entry that
\* never expires or that has another duration.
UniformExpiration ==
    \A e \in cache : e.ttl = expiration

\* C17: ListUsers makes no cache call and leaves the cache as it was,
\* whether it succeeds or fails, and when no store call fails its result is
\* exactly the rows the table holds, whatever the cache holds.
ListBypassesCache ==
    \A p \in Procs :
        LET c == call[p]
        IN  c.op = "ListUsers" =>
                /\ c.nGet = 0 /\ c.nSet = 0 /\ c.nDel = 0
                /\ cache = pre.cache
                /\ db = pre.db
                /\ (c.pc = "done" /\ c.fault = "none") =>
                       /\ c.err = Nil
                       /\ {c.users[i] : i \in 1..Len(c.users)} = db
                       /\ Len(c.users) = Cardinality(db)
                /\ (c.pc = "done" /\ c.fault # "none") =>
                       (c.err # Nil /\ c.users = <<>>)

\* A ListUsers has returned every row of a table with several rows while the
\* cache held an entry for only some of them.
ListBypassesCacheWitness ==
    \E p \in Procs :
        /\ call[p].op = "ListUsers" /\ call[p].pc = "done"
        /\ call[p].fault = "none"
        /\ Len(call[p].users) >= 2
        /\ cache # {}
        /\ \E r \in db : ~CacheHas(cache, FormatUint(r.ID))

\* C18: whenever a ReadUser is about to get its key, for every outcome of
\* the GET, StringCmd.Result and StringCmd.Unmarshal report found only
\* without an error; a key that is absent or holds the empty value gives not
\* found and no error, a failed GET gives not found and the error of the
\* GET, and Result gives found with the stored value for every other key.
GetTrichotomy ==
    \A p \in Procs, o \in Outcomes(TRUE) :
        LET key == FormatUint(call[p].id)
            cmd == RedisGet(cache, key, o)
            r == Result(cmd)
            u == Unmarshal(cmd, ZeroUser)
            absent == ~CacheHas(cache, key) \/ CacheEntry(cache, key).val = EmptyString
        IN  call[p].pc = "r_get" =>
                /\ r.found => r.err = Nil
                /\ u.found => u.err = Nil
                /\ (o = "ok" /\ absent) =>
                       (~r.found /\ r.err = Nil /\ ~u.found /\ u.err = Nil)
                /\ o = "err" =>
                       (~r.found /\ r.err = ErrRedis /\ ~u.found /\ u.err = ErrRedis)
                /\ (o = "ok" /\ ~absent) =>
                       (r.found /\ r.val = CacheEntry(cache, key).val)

\* A ReadUser has got the empty value stored under its key and has gone on
\* to the table, while the other key holds a value that does not decode.
GetTrichotomyWitness ==
    \E p \in Procs :
        LET key == FormatUint(call[p].id)
        IN  /\ ReadDone(p) /\ call[p].fault = "none"
            /\ CacheHas(pre.cache, key)
            /\ CacheEntry(pre.cache, key).val = EmptyString
            /\ call[p].nGet = 1 /\ call[p].nQuery = 1
            /\ \E e \in cache : e.val = NotJSON

\* The key under which the call is at the point of writing to the cache.
SetKey(c) == IF c.pc = "c_set" THEN Itoa(ToInt(c.user.ID)) ELSE FormatUint(c.id)

\* C19: SetMarshal is all or nothing.  Whenever a call is about to write its
\* key, for every value: when the value does not encode no redis SET is
\* issued, the keyspace is left as it was and an error is returned; when the
\* SET fails the keyspace is left as it was and an error is returned;
\* otherwise no error is returned, the key holds the encoding with the
\* configured expiration and no other key has changed.
SetMarshalAllOrNothing ==
    \A p \in Procs, value \in InputUsers \cup {ZeroUser, Chan}, o \in Outcomes(TRUE) :
        LET key == SetKey(call[p])
            s == SetMarshal(cache, key, value, o)
            encodes == DOMAIN value = DOMAIN ZeroUser
        IN  call[p].pc \in {"c_set", "r_set", "u_set"} =>
                /\ ~encodes => (~s.sent /\ s.cache = cache /\ s.err # Nil)
                /\ (encodes /\ o = "err") => (s.cache = cache /\ s.err # Nil)
                /\ (encodes /\ o = "ok") =>
                       /\ s.err = Nil
                       /\ CacheHas(s.cache, key)
                       /\ CacheEntry(s.cache, key) =
                              [key |-> key, val |-> Marshal(value), ttl |-> expiration]
                       /\ CacheDel(s.cache, key) = CacheDel(cache, key)

\* An UpdateUser's SetMarshal has failed at the redis SET on a key that held
\* an entry, and the keyspace is as it was.
SetMarshalAllOrNothingWitness ==
    \E p \in Procs :
        /\ call[p].op = "UpdateUser" /\ call[p].pc = "done"
        /\ call[p].fault = "uset"
        /\ CacheHas(pre.cache, FormatUint(call[p].id))
        /\ cache = pre.cache

\* C20: a DeleteUser(id) of an id that has no row and no cache entry returns
\* no error and leaves the table and the cache as they were; a DeleteUser(id)
\* that directly follows a DeleteUser(id) returns no error, as the first
\* did, and leaves the state the first one left.
DeleteIdempotent ==
    \A p \in Procs :
        LET c == call[p]
            key == FormatUint(c.id)
        IN  (c.op = "DeleteUser" /\ c.pc = "done" /\ c.fault = "none") =>
                /\ (~HasRow(pre.db, c.id) /\ ~CacheHas(pre.cache, key)) =>
                       (c.err = Nil /\ db = pre.db /\ cache = pre.cache)
                /\ (last.valid /\ last.op = "DeleteUser" /\ last.id = c.id) =>
                       (c.err = Nil /\ db = pre.db /\ cache = pre.cache)

\* A DeleteUser of an id without row and entry has been followed by a
\* second DeleteUser of that id, while the other id has a row and an entry.
DeleteIdempotentWitness ==
    \E p \in Procs :
        /\ call[p].op = "DeleteUser" /\ call[p].pc = "done"
        /\ call[p].fault = "none"
        /\ last.valid /\ last.op = "DeleteUser" /\ last.id = call[p].id
        /\ ~last.hadRow /\ ~last.hadEntry
        /\ db # {} /\ cache # {}

\* The entry of a key in a keyspace, as a set: empty when the key is absent.
EntryOf(c, key) == {e \in c : e.key = key}

\* C21: a service call whose cache or store call is cut short (the context
\* is cancelled during it) returns an error and takes no further step, and
\* what it has already done stays done: an UpdateUser cut short after its
\* durable write leaves the row patched, and the cache entry of its id is
\* what it was before the call.
CancelWithoutRollback ==
    \A p \in Procs :
        LET c == call[p]
            key == FormatUint(c.id)
        IN  c.fault # "none" =>
                /\ c.pc = "done"
                /\ c.err # Nil
                /\ (c.op = "UpdateUser" /\ c.fault # "exec") =>
                       /\ db = SQLUpdate(pre.db, c.id, c.arg)
                       /\ EntryOf(cache, key) = EntryOf(pre.cache, key)

\* The faults that are failures of a call on the cache or on the table.
StoreFaults == {"get", "query", "set", "exec", "uset", "del", "next", "scan"}

\* C22: a CreateUser, ReadUser, UpdateUser, DeleteUser or ListUsers during
\* which a call on the cache or on the table has failed returns a non-nil
\* error, which wraps the error of the call that failed.
NoSwallowedErrors ==
    \A p \in Procs :
        LET c == call[p]
        IN  (c.pc = "done" /\ c.fault \in StoreFaults) =>
                /\ c.err # Nil
                /\ <<c.err[Len(c.err)]>> \in {ErrRedis, ErrSQL}

\* A ListUsers of a table with several rows has returned the error of a row
\* iteration that failed.
NoSwallowedErrorsWitness ==
    \E p \in Procs :
        /\ call[p].op = "ListUsers" /\ call[p].pc = "done"
        /\ call[p].fault = "next"
        /\ call[p].err # Nil
        /\ Cardinality(db) >= 2

\* The messages whose text begins with the name of an operation of the
\* service.
MessagesIn(op) ==
    CASE op = "CreateUser" ->
           {"[in services.UsersService.CreateUser] failed to create user",
            "[in services.UsersService.CreateUser] failed to write user to cache"}
      [] op = "ReadUser" ->
           {"[in services.UsersService.ReadUser] failed to read user from cache",
            "[in services.UsersService.ReadUser] failed to read user",
            "[in services.UsersService.ReadUser] failed to write user to cache"}
      [] op = "UpdateUser" ->
           {"[in services.UsersService.UpdateUser] failed to update user",
            "[in services.UsersService.UpdateUser] failed to read updated user",
            "[in services.UsersService.UpdateUser] failed to write updated user to cache"}
      [] op = "DeleteUser" ->
           {"[in services.UsersService.DeleteUser] failed to delete user",
            "[in services.UsersService.DeleteUser] failed to remove user from cache"}
      [] OTHER -> {}

\* The text of an error names an operation, or an identifier: an identifier
\* formatted into a message is a part of the chain.
NamesOperation(err, op) == \E i \in 1..Len(err) : err[i] \in MessagesIn(op)
NamesId(err, id) == \E i \in 1..Len(err) : err[i] = ToString(id)

\* C23: every error that ReadUser, UpdateUser, DeleteUser or CreateUser
\* returns for a failed cache or store call names the operation that saw
\* the failure and the identifier the operation was acting on.
ErrorContext ==
    \A p \in Procs :
        LET c == call[p]
        IN  (/\ c.pc = "done" /\ c.fault \in StoreFaults
             /\ c.op \in {"ReadUser", "UpdateUser", "DeleteUser", "CreateUser"}) =>
                /\ NamesOperation(c.err, c.op)
                /\ c.op # "CreateUser" => NamesId(c.err, c.id)
                /\ (c.op = "CreateUser" /\ c.fault = "set") => NamesId(c.err, c.user.ID)

\* C24: within one service call no call on the cache or on the table is
\* made again after it has failed: the first call that fails ends the
\* service call, and a service call makes each of its steps at most once
\* (a ReadUser at most one cache get, one durable query and one cache set;
\* an UpdateUser one cache set of its own besides that of its re-read).
NoLocalRetry ==
    \A p \in Procs :
        LET c == call[p]
        IN  /\ c.fault \in StoreFaults => c.pc = "done"
            /\ c.nGet <= 1 /\ c.nQuery <= 1 /\ c.nExec <= 1 /\ c.nDel <= 1
            /\ c.nSet <= (IF c.op = "UpdateUser" THEN 2 ELSE 1)
            /\ c.op = "UpdateUser" => (c.nSet = 2 => c.pc = "done")

\* A ReadUser has ended at its durable query, which failed, after one cache
\* get and without a cache set.
NoLocalRetryWitness ==
    \E p \in Procs :
        /\ ReadDone(p) /\ call[p].fault = "query"
        /\ call[p].nGet = 1 /\ call[p].nQuery = 1 /\ call[p].nSet = 0
        /\ HasRow(db, call[p].id)

\* The identifiers of the rows of a table.
RowIds(t) == {r.ID : r \in t}

\* C25: no service call changes the identifier of a row of the table: while
\* a call runs, every row the table held when the call began, other than the
\* row of the call's own id, is in the table unchanged, and identifiers only
\* leave the table by a DeleteUser of them and only enter it by a
\* CreateUser.  Once the UPDATE of UpdateUser(id, patch) is done, the row of
\* id holds the patch's name, email and password under the identifier id,
\* whatever identifier the patch carries.
IdentifierImmutable ==
    LET c == call[1]
    IN  ~Idle(1) =>
            /\ \A r \in pre.db : r.ID # c.id => r \in db
            /\ c.op # "CreateUser" => RowIds(db) \subseteq RowIds(pre.db)
            /\ c.op # "DeleteUser" => RowIds(pre.db) \subseteq RowIds(db)
            /\ c.op = "CreateUser" => Cardinality(db \ pre.db) <= 1
            /\ Cardinality(RowIds(db)) = Cardinality(db)
            /\ (c.op = "UpdateUser" /\ c.nExec = 1 /\ c.fault # "exec"
                    /\ HasRow(pre.db, c.id)) =>
                   Row(db, c.id) = [ID |-> c.id, Name |-> c.arg.Name,
                                    Email |-> c.arg.Email,
                                    Password |-> c.arg.Password]

\* An UpdateUser whose patch carries an identifier of its own has changed
\* the row of its id, in a table that holds another row.
IdentifierImmutableWitness ==
    /\ call[1].op = "UpdateUser" /\ call[1].pc = "done"
    /\ call[1].fault = "none"
    /\ call[1].arg.ID \notin {0, call[1].id}
    /\ HasRow(pre.db, call[1].id)
    /\ Row(pre.db, call[1].id) # Row(db, call[1].id)
    /\ Cardinality(db) = 2

\* C26: for every identifier n a word can hold, the key under which
\* CreateUser writes the record of n is the decimal string of the unsigned
\* n, the key of ReadUser, UpdateUser and DeleteUser: the cache write of
\* CreateUser leaves its entry under that key, a ReadUser of n that follows
\* finds it, and a DeleteUser of n leaves no entry behind.
CacheKeyFormat ==
    LET c == call[1]
    IN  /\ (c.op = "CreateUser" /\ c.pc = "done" /\ c.err = Nil) =>
               \A e \in cache : e.key = FormatUint(c.ret.ID)
        /\ ReadDone(1) => c.nQuery = 0
        /\ (c.op = "DeleteUser" /\ c.pc = "done") => cache = {}

\* Goroutine p has finished a CreateUser without error.
CreateDone(p) ==
    call[p].op = "CreateUser" /\ call[p].pc = "done" /\ call[p].err = Nil

\* The record of a CreateUser: a CreateUser that succeeds returns a record with the
\* identifier the table generated, nonzero, the identifier of no row the
\* table held and whatever identifier the input carries, and with the
\* input's name, email and password; the table has gained exactly that row
\* and the cache holds exactly that record under the key of the identifier.
CreateAssignsIdRecord ==
    \A p \in Procs :
        CreateDone(p) =>
            LET c == call[p]  key == FormatUint(c.ret.ID)
            IN  /\ c.ret.ID = nextId - 1
                /\ c.ret.ID # 0
                /\ c.ret.ID \notin RowIds(pre.db)
                /\ c.ret = [c.arg EXCEPT !.ID = c.ret.ID]
                /\ c.ret \notin pre.db
                /\ db = pre.db \cup {c.ret}
                /\ CacheHas(cache, key)
                /\ CacheEntry(cache, key).val = Marshal(c.ret)
                /\ \A e \in cache : e.key # key => e \in pre.cache

\* C27: such a CreateUser has, besides, added a cache entry: the cache held
\* no entry under the key of the new identifier, and holds one entry more
\* than it did.
CreateAssignsId ==
    /\ CreateAssignsIdRecord
    /\ \A p \in Procs :
           CreateDone(p) =>
               /\ ~CacheHas(pre.cache, FormatUint(call[p].ret.ID))
               /\ Cardinality(cache) = Cardinality(pre.cache) + 1

\* C28: ListUsers holds an open cursor from the moment its query has
\* succeeded until it returns, and has closed it when it returns, whether
\* it returns the users, the error of a row scan or the error of the row
\* iteration; when the query itself fails there never was a cursor, and no
\* other operation has one.
CursorReleased ==
    \A p \in Procs :
        LET c == call[p]
        IN  /\ c.op # "ListUsers" => c.cursor = "none"
            /\ c.op = "ListUsers" =>
                   /\ c.pc = "l_query" => c.cursor = "none"
                   /\ c.pc \in {"l_next", "l_scan"} => c.cursor = "open"
                   /\ c.pc = "done" =>
                          c.cursor = (IF c.fault = "query" THEN "none" ELSE "closed")

\* A ListUsers of a table with two rows has returned the error of a row
\* scan, with its cursor closed.
CursorReleasedWitness ==
    \E p \in Procs :
        /\ call[p].op = "ListUsers" /\ call[p].pc = "done"
        /\ call[p].fault = "scan" /\ call[p].err # Nil
        /\ call[p].cursor = "closed"
        /\ Cardinality(db) = 2

\* C29: a CreateUser whose INSERT succeeds and whose cache write fails
\* returns an error and the zero record and leaves the inserted row in the
\* table; while only reads follow, the row stays in the table, every
\* ListUsers that succeeds returns it, and every ReadUser of its id that
\* succeeds returns it.
CreateNotAtomic ==
    LET c == call[1]
    IN  /\ (c.op = "CreateUser" /\ c.pc = "done" /\ c.fault = "set") =>
               /\ c.err # Nil /\ c.ret = ZeroUser
               /\ c.user.ID # 0 /\ c.user \notin pre.db
               /\ db = pre.db \cup {c.user}
               /\ cache = pre.cache
        /\ orphan # 0 =>
               /\ HasRow(db, orphan)
               /\ (c.op = "ListUsers" /\ c.pc = "done" /\ c.err = Nil) =>
                      \E i \in 1..Len(c.users) : c.users[i] = Row(db, orphan)
               /\ (ReadDone(1) /\ c.err = Nil /\ c.id = orphan) =>
                      c.ret = Row(db, orphan)

\* C30: with only ReadUser and DeleteUser calls running, none failing and no
\* entry expiring, once every call has returned the cache holds no entry for
\* an id whose row has been deleted: no ReadUser that was in flight during
\* the DeleteUser has left one behind, so that a ReadUser of the id that
\* starts then returns the zero record.
ReadAfterDelete ==
    Quiescent =>
        \A id \in Ids :
            ~HasRow(db, id) => ~CacheHas(cache, FormatUint(id))

\* C31: an UpdateUser of an id that has no row and no cache entry, none of
\* whose store calls fails, returns the zero record and no error and leaves
\* the table as it was, without a row of the id; the ReadUser of the id that
\* follows it, none of whose store calls fails, returns the zero record and
\* no error.
UpdateAbsent ==
    \A p \in Procs :
        LET c == call[p]
            key == FormatUint(c.id)
        IN  /\ (/\ c.op = "UpdateUser" /\ c.pc = "done" /\ c.fault = "none"
                /\ ~HasRow(pre.db, c.id) /\ ~CacheHas(pre.cache, key)) =>
                   /\ c.ret = ZeroUser /\ c.err = Nil
                   /\ db = pre.db
                   /\ ~HasRow(db, c.id)
            /\ (/\ ReadDone(p) /\ c.fault = "none"
                /\ last.valid /\ last.op = "UpdateUser" /\ last.id = c.id
                /\ ~last.hadRow /\ ~last.hadEntry) =>
                   /\ c.ret = ZeroUser /\ c.err = Nil
                   /\ ~HasRow(db, c.id)

\* A ReadUser has returned after an UpdateUser of the same id, which had no
\* row and no cache entry, in a table that holds a row of another id.
UpdateAbsentWitness ==
    \E p \in Procs :
        /\ ReadDone(p) /\ call[p].fault = "none"
        /\ last.valid /\ last.op = "UpdateUser" /\ last.id = call[p].id
        /\ ~last.hadRow /\ ~last.hadEntry
        /\ call[p].ret = ZeroUser /\ call[p].err = Nil
        /\ db # {}

\* C32: no ReadUser, whatever path it takes, changes the table; a ReadUser
\* that finds its record in the cache leaves the whole keyspace as it was,
\* the value of the entry it read and the time the entry has left to live
\* included.
ReadOnlyRead ==
    \A p \in Procs :
        call[p].op = "ReadUser" =>
            /\ db = pre.db
            /\ (call[p].pc = "done" /\ call[p].found) =>
                   /\ call[p].nSet = 0
                   /\ cache = pre.cache

\* A ReadUser has found its record in an entry that had lived for a part of
\* its time.
ReadOnlyReadWitness ==
    \E p \in Procs :
        /\ ReadDone(p) /\ call[p].found /\ call[p].err = Nil
        /\ CacheHas(cache, FormatUint(call[p].id))
        /\ CacheEntry(cache, FormatUint(call[p].id)).ttl = expiration - 1
        /\ expiration > 1

\* The isolation of ReadUser, UpdateUser and DeleteUser: while such a call on
\* an id runs, the cache entries under every other key and the rows of every
\* other id are those the keyspace and the table held when it began; a
\* CreateUser leaves every row the table held in place.
KeyIsolationOthers ==
    \A p \in Procs :
        LET c == call[p]
            key == FormatUint(c.id)
        IN  /\ c.op \in {"ReadUser", "UpdateUser", "DeleteUser"} =>
                   /\ {e \in cache : e.key # key} = {e \in pre.cache : e.key # key}
                   /\ {r \in db : r.ID # c.id} = {r \in pre.db : r.ID # c.id}
            /\ c.op = "CreateUser" => pre.db \subseteq db

\* C33: ReadUser, UpdateUser and DeleteUser of an id leave the cache entries
\* and the rows of every other id unchanged, and CreateUser leaves every
\* cache entry and every row that existed before it unchanged.
KeyIsolation ==
    /\ KeyIsolationOthers
    /\ \A p \in Procs :
           call[p].op = "CreateUser" => pre.cache \subseteq cache

IdConversion ==
    req.called =>
        /\ req.parsed >= 0
        /\ req.id = req.parsed

\* What run has returned agrees with what Shutdown returned: nil exactly
\* when Shutdown succeeded, the wrapped error of Shutdown when it failed; and
\* the signal goroutine is not left sending on errChan.
ShutdownOutcome ==
    srv.main = "returned" =>
        /\ srv.ret = Nil <=> srv.shutdown = "ok"
        /\ srv.shutdown = "failed" =>
               srv.ret = Errorf("[in main.run] failed to shutdown http server", srv.sderr)
        /\ srv.sig # "send"

\* C36: once the server listens and SIGINT is received, run returns in the
\* end, whatever the interleaving of its two goroutines; it returns nil
\* exactly when Shutdown succeeded and the wrapped error of Shutdown when
\* Shutdown failed, and the signal goroutine is never left sending on
\* errChan.
ShutdownTerminates ==
    /\ srv.sigint ~> (srv.main = "returned")
    /\ []ShutdownOutcome
====
